---- MODULE Spec2Model ----
(***************************************************************************)
(* CanvasMap (src/components/ProjectManagement.tsx, lines 859-1163): the   *)
(* pannable, zoomable grid of tables, its gesture handlers, its hit test   *)
(* and its draw pass.                                                      *)
(*                                                                         *)
(* Numbers.  Pixel coordinates are integers.  The view scale is a          *)
(* fixed-point number in thousandths (UNIT = scale 1.0), so the wheel      *)
(* sensitivity 0.001 is 1 and the pinch sensitivity 0.005 is 5.  A point   *)
(* of logical space obtained by dividing by the scale is kept as an exact  *)
(* fraction (numerator over denominator) and compared by cross             *)
(* multiplication, so no rounding is introduced by the model.              *)
(*                                                                         *)
(* Events.  The handlers are those bound on the canvas element (lines      *)
(* 1144-1158).  The browser delivers them: a click follows a mouse-up on   *)
(* the canvas whose mouse-down was on the canvas too, whatever the pointer *)
(* did in between; a one-finger touch that never moved is followed by the  *)
(* compatibility events mousedown, mouseup, click at the touch point; a    *)
(* touch gesture that moved or had two contacts is followed by none.       *)
(* Each handler runs to completion and React re-renders (and the draw      *)
(* effect of lines 991-993 runs) before the next event is handled, except  *)
(* in SpecBurst, where several events are handled within one render.       *)
(*                                                                         *)
(* The parent.  The later sections model what surrounds CanvasMap: project *)
(* creation (lines 85-132; Chat.tsx, lines 232-283), the live query that   *)
(* feeds the entity list (lines 37-40), the handler of onTableClick (lines *)
(* 147-170; Chat.tsx, lines 310-325) and the attendance actions of         *)
(* TeamManagement (lines 1707-1831).  A live query delivers its result in  *)
(* a step of its own, after the write that caused it.                      *)
(***************************************************************************)
EXTENDS Integers, Sequences, FiniteSets, TLC

VARIABLES
    \* React state of CanvasMap (lines 866-870)
    scale, offset, isDragging, dragStart, lastTouchDistance,
    \* props (lines 859-862): the entity list; onTableClick is recorded in emitted
    tables,
    \* the canvas: what is painted on it, where it sits in the viewport, whether
    \* getContext('2d') yields a context, the draw passes of the last step and
    \* the pending callbacks of setTimeout
    surface, rect, context2d, passes, timers,
    \* the pointer and the touch contacts as the browser sees them
    ptr, pressed, downPt, touches, touchKind, queue,
    \* history: the last handler that ran, the onTableClick calls it made, and
    \* the point and offset at which the drag in progress began
    lastEvent, emitted, anchor,
    \* the parent's side: the rows of db.projectTables of the open project and
    \* of db.attendance, the result of the live query attendanceToday that the
    \* last render saw, and (history) the calls of handleTableClick per table
    projectTables, attendance, attendanceToday, acts

vars == <<scale, offset, isDragging, dragStart, lastTouchDistance, tables,
          surface, rect, context2d, passes, timers, ptr, pressed, downPt,
          touches, touchKind, queue, lastEvent, emitted, anchor,
          projectTables, attendance, attendanceToday, acts>>

progVars == <<scale, offset, isDragging, dragStart, lastTouchDistance>>

\* the parent's stores and live queries, which no handler of CanvasMap touches
parent == <<projectTables, attendance, attendanceToday, acts>>

\* a handler that makes no onTableClick call
NoCall == emitted' = <<>>

-----------------------------------------------------------------------------
(* Program constants *)

UNIT == 1000
TABLE_WIDTH == 45
TABLE_HEIGHT == 25
GAP == 15
MIN_SCALE == 200
MAX_SCALE == 5000
WHEEL_SENSITIVITY == 1
PINCH_SENSITIVITY == 5
ZOOM_STEP == 200
DEFAULT_OFFSET == 50

\* The drag threshold of the specification (section 4.3); the code has none.
DRAG_THRESHOLD == 8

(* Bounds of the model *)

\* the environment pans at most MaxPan pixels right of and below the default
MaxPan == 8
\* simultaneous touch contacts
MaxTouches == 2
\* pending redraw timers of exports
MaxTimers == 1
\* events handled within the 100 ms between an export and its redraw
MaxLate == 1
\* steps of the zoom controls that the view is away from scale 1 where
\* exports are made
MaxZoom == 2

\* null, the value of lastTouchDistance outside a pinch (distances are >= 0)
NULL == -1
None == "none"

Pt(x, y) == [x |-> x, y |-> y]

\* pointer positions, relative to the canvas: a point on the table at grid
\* (0,0) under the default view, a point 5 px away from it and one 10 px
\* away; touch contacts 40 px and 80 px apart
MousePts == {Pt(70, 60), Pt(73, 64), Pt(76, 68)}
TouchPts == {Pt(70, 60), Pt(94, 92), Pt(118, 124)}
WheelDeltas == {-1000, 400, 7000}
CanvasOrigins == {Pt(8, 16)}

Pending == 0
Completed == 1
Issue == 2

Tbl(id, x, y, type, status) ==
    [id |-> id, x |-> x, y |-> y, type |-> type, status |-> status]

\* entity lists handed to the component: a grid with distinct coordinates,
\* and a list where two entities share a cell
GridLayout ==
    <<Tbl("p_0", 0, 0, "S", Pending), Tbl("p_1", 1, 0, "M", Completed),
      Tbl("p_2", 0, 1, "L", Issue)>>
StackedLayout ==
    <<Tbl("q_0", 0, 0, "S", Pending), Tbl("q_1", 0, 0, "M", Issue),
      Tbl("q_2", 1, 1, "L", Completed)>>
Layouts == {GridLayout, StackedLayout}

-----------------------------------------------------------------------------
(* Arithmetic helpers *)

Min(a, b) == IF a <= b THEN a ELSE b
Max(a, b) == IF a >= b THEN a ELSE b
Abs(a) == IF a >= 0 THEN a ELSE -a

\* Math.hypot on the point sets used here, where it is an integer
Hypot(dx, dy) ==
    CHOOSE r \in 0..(Abs(dx) + Abs(dy)) : r * r = dx * dx + dy * dy

Dist(p, q) == Hypot(p.x - q.x, p.y - q.y)

\* exact fractions n/d with d > 0
Frac(n, d) == [n |-> n, d |-> d]
FracGe(f, k) == f.n >= k * f.d
FracLe(f, k) == f.n <= k * f.d


-----------------------------------------------------------------------------
(* GeometryModel and Renderer: draw (lines 897-989) *)

\* lines 932-933 and 960: the rectangle drawn for a table, in logical units
drawRect(table) ==
    [x |-> table.x * (TABLE_WIDTH + GAP),
     y |-> table.y * (TABLE_HEIGHT + GAP),
     w |-> TABLE_WIDTH,
     h |-> TABLE_HEIGHT]

\* lines 927-929: ctx.translate(offset); ctx.scale(scale, scale) -- the screen
\* coordinate of the logical coordinate l (a fraction) along one axis
canvasTransform(l, sc, off) == Frac(l.n * sc + off * UNIT * l.d, UNIT * l.d)

\* lines 897-989: one draw pass; the frame left on the canvas
draw(exportMode, tbls, sc, off) ==
    [background |-> IF exportMode THEN "#ffffff" ELSE "clear",
     gridSize |-> 50 * sc,
     translate |-> off,
     scaleBy |-> sc,
     cells |-> [i \in DOMAIN tbls |->
                  [rect |-> drawRect(tbls[i]),
                   status |-> tbls[i].status,
                   label |-> tbls[i].type]]]

\* canvasRef.current (line 865): React assigns the canvas element to the ref
\* (line 1145) before any effect or handler runs and keeps it until unmount
canvasMounted == TRUE

\* a canvas on which nothing has been painted; its context starts with a
\* black fill style
Blank ==
    [background |-> "clear", gridSize |-> 0, translate |-> Pt(0, 0),
     scaleBy |-> 0, cells |-> <<>>, fillStyle |-> "#000000"]

\* what a surface shows, without the state the context keeps (the fill style)
Painted(s) ==
    [background |-> s.background, gridSize |-> s.gridSize,
     translate |-> s.translate, scaleBy |-> s.scaleBy, cells |-> s.cells]

\* mutant of clearRect: the previous frame is left on the canvas
clearRectNothing(prev) == prev

\* line 904: clearRect over the whole canvas, under the identity transform
\* that restore (line 988) left
clearRect(prev) == [Blank EXCEPT !.fillStyle = prev.fillStyle]

\* mutant of drawPass: no test of the canvas and its context
drawPassUnguarded(prev, exportMode, tbls, sc, off) ==
    [draw(exportMode, tbls, sc, off) EXCEPT !.background = "#ffffff"]
        @@ [fillStyle |-> "#ffffff"]

\* lines 897-989 as a change of the canvas: nothing without a canvas or a
\* context (lines 898-901); otherwise the frame is painted over the cleared
\* canvas, and restore (line 988) returns the fill style to what it was at
\* save (line 927), the white of line 908 in export mode
drawPass(prev, exportMode, tbls, sc, off) ==
    IF ~canvasMounted \/ ~context2d THEN prev
    ELSE LET cleared == clearRect(prev)
             frame == draw(exportMode, tbls, sc, off)
         IN [background |-> IF frame.background = "clear" THEN cleared.background
                            ELSE frame.background,
             gridSize |-> frame.gridSize,
             translate |-> frame.translate,
             scaleBy |-> frame.scaleBy,
             cells |-> cleared.cells \o frame.cells,
             fillStyle |-> IF exportMode THEN "#ffffff" ELSE cleared.fillStyle]

\* one call of draw: its mode and the values its closure holds
Pass(exportMode, tbls, sc, off) ==
    [exportMode |-> exportMode, tables |-> tbls, scale |-> sc, offset |-> off]

\* mutant of Render: the effect runs draw of the render before
RenderStale(fresh) ==
    /\ passes' = IF fresh \/ <<tables', scale', offset'>> # <<tables, scale, offset>>
                 THEN <<Pass(FALSE, tables, scale, offset)>> ELSE <<>>
    /\ surface' = IF passes' # <<>>
                  THEN drawPass(surface, FALSE, tables, scale, offset) ELSE surface

\* lines 989-993: draw is made anew when tables, scale or offset is another
\* value or object than in the render before -- fresh tells that the handler
\* stored a new offset object -- and the effect then calls draw() once
Render(fresh) ==
    /\ passes' = IF fresh \/ <<tables', scale', offset'>> # <<tables, scale, offset>>
                 THEN <<Pass(FALSE, tables', scale', offset')>> ELSE <<>>
    /\ surface' = IF passes' # <<>>
                  THEN drawPass(surface, FALSE, tables', scale', offset') ELSE surface

\* the re-render after a handler that stores no offset
Effect == Render(FALSE)

-----------------------------------------------------------------------------
(* HitTester: handleClick (lines 1064-1088) *)

\* mutant of screenToLogical: the offset is not subtracted
screenToLogicalNoOffset(client, origin, off, sc) == Frac((client - origin) * UNIT, sc)

\* lines 1071-1072: (clientX - rect.left - offset.x) / scale along one axis
screenToLogical(client, origin, off, sc) == Frac((client - origin - off) * UNIT, sc)

\* mutant of hitRect: the cell pitch leaves out the gap
hitRectNoGap(t) ==
    [x |-> t.x * TABLE_WIDTH,
     y |-> t.y * TABLE_HEIGHT,
     w |-> TABLE_WIDTH,
     h |-> TABLE_HEIGHT]

\* mutant of hitRect: the gap counts as part of the cell
hitRectWide(t) ==
    [x |-> t.x * (TABLE_WIDTH + GAP),
     y |-> t.y * (TABLE_HEIGHT + GAP),
     w |-> TABLE_WIDTH + GAP,
     h |-> TABLE_HEIGHT + GAP]

\* lines 1075-1076 and 1079, 1081: the rectangle tested for a table
hitRect(t) ==
    [x |-> t.x * (TABLE_WIDTH + GAP),
     y |-> t.y * (TABLE_HEIGHT + GAP),
     w |-> TABLE_WIDTH,
     h |-> TABLE_HEIGHT]

\* lines 1077-1082: the containment test, borders included
containsPoint(t, clickX, clickY) ==
    LET r == hitRect(t) IN
    /\ FracGe(clickX, r.x)
    /\ FracLe(clickX, r.x + r.w)
    /\ FracGe(clickY, r.y)
    /\ FracLe(clickY, r.y + r.h)

\* mutant of find: the last element that satisfies the test
findLast(tbls, clickX, clickY) ==
    LET matches == {i \in DOMAIN tbls : containsPoint(tbls[i], clickX, clickY)} IN
    IF matches = {} THEN 0
    ELSE CHOOSE i \in matches : \A j \in matches : i >= j

\* Array.prototype.find (line 1074): the index of the first element that
\* satisfies the test, 0 when there is none
find(tbls, clickX, clickY) ==
    LET matches == {i \in DOMAIN tbls : containsPoint(tbls[i], clickX, clickY)} IN
    IF matches = {} THEN 0
    ELSE CHOOSE i \in matches : \A j \in matches : i <= j

\* mutant of hitTest: filter and forEach instead of find
hitTestAll(e) ==
    LET clickX == screenToLogical(e.x, rect.x, offset.x, scale)
        clickY == screenToLogical(e.y, rect.y, offset.y, scale)
        hit == SelectSeq(tables, LAMBDA t : containsPoint(t, clickX, clickY))
    IN [i \in DOMAIN hit |-> hit[i].id]

\* lines 1070-1087: the calls of onTableClick made for a click at e
hitTest(e) ==
    LET clickX == screenToLogical(e.x, rect.x, offset.x, scale)
        clickY == screenToLogical(e.y, rect.y, offset.y, scale)
        i == find(tables, clickX, clickY)
    IN IF i # 0 THEN <<tables[i].id>> ELSE <<>>

handleClick(e) ==
    /\ emitted' = IF isDragging THEN <<>> ELSE hitTest(e)
    /\ UNCHANGED progVars

-----------------------------------------------------------------------------
(* ViewTransform and GestureController (lines 996-1062, 1090-1093, 1113-1121) *)

\* mutant of clampScale: the lower clamp is missing
clampScaleNoFloor(s) == Min(s, MAX_SCALE)

\* mutant of clampScale: the lower clamp is at 0
clampScaleFloorZero(s) == Min(Max(s, 0), MAX_SCALE)

\* lines 1018 and 1052: Math.min(Math.max(s, 0.2), 5)
clampScale(s) == Min(Max(s, MIN_SCALE), MAX_SCALE)

handleMouseDown(e) ==
    /\ isDragging' = TRUE
    /\ dragStart' = Pt(e.x - offset.x, e.y - offset.y)
    /\ UNCHANGED <<scale, offset, lastTouchDistance>>
    /\ NoCall

\* mutant of handleMouseMove: only the x coordinate follows the pointer
handleMouseMoveHorizontal(e) ==
    /\ offset' = IF isDragging THEN Pt(e.x - dragStart.x, offset.y)
                 ELSE offset
    /\ UNCHANGED <<scale, isDragging, dragStart, lastTouchDistance>>
    /\ NoCall

handleMouseMove(e) ==
    /\ offset' = IF isDragging THEN Pt(e.x - dragStart.x, e.y - dragStart.y)
                 ELSE offset
    /\ UNCHANGED <<scale, isDragging, dragStart, lastTouchDistance>>
    /\ NoCall

\* mutant of handleMouseUp: the drag flag is not cleared
handleMouseUpKeepsDrag ==
    /\ UNCHANGED progVars
    /\ NoCall

handleMouseUp ==
    /\ isDragging' = FALSE
    /\ UNCHANGED <<scale, offset, dragStart, lastTouchDistance>>
    /\ NoCall

\* mutant of handleWheel: the wheel also ends the gesture in progress
handleWheelEndsGesture(deltaY) ==
    /\ NoCall
    /\ scale' = clampScale(scale - deltaY * WHEEL_SENSITIVITY)
    /\ isDragging' = FALSE
    /\ lastTouchDistance' = NULL
    /\ UNCHANGED <<offset, dragStart>>

\* mutant of handleWheel: the wheel also shifts the offset
handleWheelMovesOffset(deltaY) ==
    /\ NoCall
    /\ scale' = clampScale(scale - deltaY * WHEEL_SENSITIVITY)
    /\ offset' = Pt(offset.x, offset.y + 1)
    /\ UNCHANGED <<isDragging, dragStart, lastTouchDistance>>

handleWheel(deltaY) ==
    /\ NoCall
    /\ LET delta == (0 - deltaY) * WHEEL_SENSITIVITY IN
       /\ scale' = clampScale(scale + delta)
       /\ UNCHANGED <<offset, isDragging, dragStart, lastTouchDistance>>

\* mutant of handleTouchStart: a second contact does not stop the drag
handleTouchStartKeepsPan(e) ==
    /\ NoCall
    /\ IF Len(e) = 1 THEN
           /\ isDragging' = TRUE
           /\ dragStart' = Pt(e[1].x - offset.x, e[1].y - offset.y)
           /\ UNCHANGED <<scale, offset, lastTouchDistance>>
       ELSE IF Len(e) = 2 THEN
           /\ lastTouchDistance' = Dist(e[1], e[2])
           /\ UNCHANGED <<scale, offset, isDragging, dragStart>>
       ELSE UNCHANGED progVars

\* e is the list e.touches, in client coordinates
handleTouchStart(e) ==
    /\ NoCall
    /\ IF Len(e) = 1 THEN
           /\ isDragging' = TRUE
           /\ dragStart' = Pt(e[1].x - offset.x, e[1].y - offset.y)
           /\ UNCHANGED <<scale, offset, lastTouchDistance>>
       ELSE IF Len(e) = 2 THEN
           /\ isDragging' = FALSE
           /\ lastTouchDistance' = Dist(e[1], e[2])
           /\ UNCHANGED <<scale, offset, dragStart>>
       ELSE UNCHANGED progVars

\* a JavaScript number or null used as a condition (line 1043)
truthy(d) == d # NULL /\ d # 0

\* mutant of handleTouchMove: one contact pans whether or not a drag is on
handleTouchMoveAnyContact(e) ==
    /\ NoCall
    /\ IF Len(e) = 1 THEN
           /\ offset' = Pt(e[1].x - dragStart.x, e[1].y - dragStart.y)
           /\ UNCHANGED <<scale, isDragging, dragStart, lastTouchDistance>>
       ELSE IF Len(e) = 2 /\ truthy(lastTouchDistance) THEN
           LET dist == Dist(e[1], e[2])
               delta == dist - lastTouchDistance
               zoomFactor == delta * PINCH_SENSITIVITY
           IN /\ scale' = clampScale(scale + zoomFactor)
              /\ lastTouchDistance' = dist
              /\ UNCHANGED <<offset, isDragging, dragStart>>
       ELSE UNCHANGED progVars

handleTouchMove(e) ==
    /\ NoCall
    /\ IF Len(e) = 1 /\ isDragging THEN
           /\ offset' = Pt(e[1].x - dragStart.x, e[1].y - dragStart.y)
           /\ UNCHANGED <<scale, isDragging, dragStart, lastTouchDistance>>
       ELSE IF Len(e) = 2 /\ truthy(lastTouchDistance) THEN
           LET dist == Dist(e[1], e[2])
               delta == dist - lastTouchDistance
               zoomFactor == delta * PINCH_SENSITIVITY
           IN /\ scale' = clampScale(scale + zoomFactor)
              /\ lastTouchDistance' = dist
              /\ UNCHANGED <<offset, isDragging, dragStart>>
       ELSE UNCHANGED progVars

\* mutant of handleTouchEnd: the pinch distance is kept
handleTouchEndKeepsDistance ==
    /\ isDragging' = FALSE
    /\ UNCHANGED <<scale, offset, dragStart, lastTouchDistance>>
    /\ NoCall

\* mutant of handleTouchEnd: the lift is hit-tested where the touch began
handleTouchEndTaps ==
    /\ isDragging' = FALSE
    /\ lastTouchDistance' = NULL
    /\ UNCHANGED <<scale, offset, dragStart>>
    /\ emitted' = hitTest(Pt(dragStart.x + offset.x, dragStart.y + offset.y))

handleTouchEnd ==
    /\ isDragging' = FALSE
    /\ lastTouchDistance' = NULL
    /\ UNCHANGED <<scale, offset, dragStart>>
    /\ NoCall

\* line 1115
zoomIn ==
    /\ scale' = Min(scale + ZOOM_STEP, MAX_SCALE)
    /\ UNCHANGED <<offset, isDragging, dragStart, lastTouchDistance>>
    /\ NoCall

\* line 1121
zoomOut ==
    /\ scale' = Max(scale - ZOOM_STEP, MIN_SCALE)
    /\ UNCHANGED <<offset, isDragging, dragStart, lastTouchDistance>>
    /\ NoCall

\* mutant of resetView: the scale is reset, the offset is not
resetViewKeepsOffset ==
    /\ scale' = UNIT
    /\ UNCHANGED <<offset, isDragging, dragStart, lastTouchDistance>>
    /\ NoCall

\* lines 1090-1093
resetView ==
    /\ scale' = UNIT
    /\ offset' = Pt(DEFAULT_OFFSET, DEFAULT_OFFSET)
    /\ UNCHANGED <<isDragging, dragStart, lastTouchDistance>>
    /\ NoCall

\* a pending setTimeout callback: the call of draw it will make, and the
\* number of events handled since it was set
Timer(call) == [call |-> call, age |-> 0]

\* the timers after one more event; none is older than MaxLate events
Tick ==
    /\ \A i \in DOMAIN timers : timers[i].age < MaxLate
    /\ timers' = [i \in DOMAIN timers |-> [timers[i] EXCEPT !.age = @ + 1]]

\* mutant of handleDownload: the export also resets the view
handleDownloadResetsView ==
    /\ scale' = UNIT
    /\ offset' = Pt(DEFAULT_OFFSET, DEFAULT_OFFSET)
    /\ UNCHANGED <<isDragging, dragStart, lastTouchDistance>>
    /\ NoCall
    /\ passes' = <<Pass(TRUE, tables, scale, offset)>>
    /\ surface' = drawPass(surface, TRUE, tables, scale, offset)
    /\ timers' = Append(timers, Timer(Pass(FALSE, tables, scale, offset)))

\* lines 1095-1106: draw(true) of this render, the snapshot, and a timer
\* that calls draw(false) of this render
handleDownload ==
    /\ UNCHANGED progVars
    /\ NoCall
    /\ IF canvasMounted
         THEN /\ passes' = <<Pass(TRUE, tables, scale, offset)>>
              /\ surface' = drawPass(surface, TRUE, tables, scale, offset)
              /\ timers' = Append(timers, Timer(Pass(FALSE, tables, scale, offset)))
         ELSE /\ passes' = <<>>
              /\ UNCHANGED <<surface, timers>>

\* line 1104: the callback of the timer
redrawLater(call) ==
    /\ UNCHANGED progVars
    /\ NoCall
    /\ passes' = <<call>>
    /\ surface' = drawPass(surface, call.exportMode, call.tables, call.scale, call.offset)

-----------------------------------------------------------------------------
(* The browser: which events reach the handlers, and in which order *)

\* an event's clientX / clientY for the canvas-relative point p
Client(p) == Pt(rect.x + p.x, rect.y + p.y)

ClientAll(ts) == [i \in DOMAIN ts |-> Client(ts[i])]

InPanRange(o) ==
    /\ 0 <= o.x - DEFAULT_OFFSET /\ o.x - DEFAULT_OFFSET <= MaxPan
    /\ 0 <= o.y - DEFAULT_OFFSET /\ o.y - DEFAULT_OFFSET <= MaxPan

RemoveAt(s, i) == [j \in 1..(Len(s) - 1) |-> IF j < i THEN s[j] ELSE s[j + 1]]

\* no compatibility event or click is waiting to be dispatched
Quiet == queue = <<>>

\* where a drag began: the canvas point of the press and the offset then
Anchor(p, o) == [pt |-> p, off |-> o]
NoAnchor == Anchor(Pt(0, 0), Pt(0, 0))

\* the anchor is remembered while the drag flag is set
KeepAnchor == anchor' = IF isDragging' THEN anchor ELSE NoAnchor

\* bookkeeping of an event that is neither a press, a release nor a click:
\* the press point is remembered while the button is held, the kind of touch
\* gesture while a contact is down
Other(ev) ==
    /\ lastEvent' = ev
    /\ downPt' = IF pressed' THEN downPt ELSE ptr'
    /\ touchKind' = IF touches' = <<>> THEN None ELSE touchKind
    /\ KeepAnchor

\* no project is open and nobody has checked in
NoParent ==
    /\ projectTables = <<>>
    /\ attendance = <<>>
    /\ attendanceToday = <<>>
    /\ acts = <<>>

\* the state after mount, with or without a 2d context: the effect has run
InitWith(ctx) ==
    /\ scale = UNIT
    /\ offset = Pt(DEFAULT_OFFSET, DEFAULT_OFFSET)
    /\ isDragging = FALSE
    /\ dragStart = Pt(0, 0)
    /\ lastTouchDistance = NULL
    /\ tables = StackedLayout
    /\ rect \in CanvasOrigins
    /\ context2d = ctx
    /\ passes = <<Pass(FALSE, tables, scale, offset)>>
    /\ surface = drawPass(Blank, FALSE, tables, scale, offset)
    /\ timers = <<>>
    /\ ptr = Pt(70, 60)
    /\ pressed = FALSE
    /\ downPt = ptr
    /\ touches = <<>>
    /\ touchKind = None
    /\ queue = <<>>
    /\ lastEvent = "other"
    /\ emitted = <<>>
    /\ anchor = NoAnchor
    /\ NoParent

Init == InitWith(TRUE)

\* onMouseMove (line 1150)
MouseMove(p) ==
    /\ Quiet
    /\ p # ptr
    /\ handleMouseMove(Client(p))
    /\ InPanRange(offset')
    /\ ptr' = p
    /\ UNCHANGED <<tables, rect, context2d, parent, pressed, touches, queue>>
    /\ Tick
    /\ Other("other")
    /\ Render(isDragging)

\* onMouseDown (line 1149), of a real press or of the compatibility event
MouseDown ==
    /\ \/ Quiet /\ ~pressed /\ touches = <<>>
       \/ queue # <<>> /\ Head(queue) = "mousedown"
    /\ handleMouseDown(Client(ptr))
    /\ pressed' = TRUE
    /\ downPt' = ptr
    /\ anchor' = Anchor(ptr, offset)
    /\ queue' = IF Quiet THEN queue ELSE Tail(queue)
    /\ lastEvent' = "other"
    /\ touchKind' = IF touches = <<>> THEN None ELSE touchKind
    /\ UNCHANGED <<tables, rect, context2d, parent, ptr, touches>>
    /\ Tick
    /\ Effect

\* onMouseUp (line 1151); a click follows when the press began on the canvas
MouseUp ==
    /\ \/ Quiet
       \/ queue # <<>> /\ Head(queue) = "mouseup"
    /\ handleMouseUp
    /\ pressed' = FALSE
    /\ queue' = IF Quiet THEN (IF pressed THEN <<"click">> ELSE <<>>)
                ELSE Tail(queue)
    /\ lastEvent' = "other"
    /\ touchKind' = IF touches = <<>> THEN None ELSE touchKind
    /\ KeepAnchor
    /\ UNCHANGED <<tables, rect, context2d, parent, ptr, downPt, touches>>
    /\ Tick
    /\ Effect

\* onMouseLeave (line 1152) runs handleMouseUp, whether or not the button is
\* held; the pointer may come back with the button still down
MouseLeave ==
    /\ Quiet
    /\ handleMouseUp
    /\ UNCHANGED <<tables, rect, context2d, parent, ptr, pressed, touches, queue>>
    /\ Tick
    /\ Other("other")
    /\ Effect

\* the button is released outside the canvas, after the pointer left it: no
\* handler of the canvas runs and no click follows
ReleaseOutside ==
    /\ Quiet
    /\ pressed
    /\ ~isDragging
    /\ pressed' = FALSE
    /\ UNCHANGED progVars
    /\ NoCall
    /\ UNCHANGED <<tables, rect, context2d, parent, ptr, touches, queue>>
    /\ Tick
    /\ Other("other")
    /\ Effect

\* onClick (line 1154), at the point of the mouse-up
Click ==
    /\ queue # <<>>
    /\ Head(queue) = "click"
    /\ handleClick(Client(ptr))
    /\ queue' = Tail(queue)
    /\ lastEvent' = "click"
    /\ touchKind' = IF touches = <<>> THEN None ELSE touchKind
    /\ KeepAnchor
    /\ UNCHANGED <<tables, rect, context2d, parent, ptr, pressed, downPt, touches>>
    /\ Tick
    /\ Effect

\* onWheel (line 1153)
Wheel(deltaY) ==
    /\ Quiet
    /\ handleWheel(deltaY)
    /\ UNCHANGED <<tables, rect, context2d, parent, ptr, pressed, touches, queue>>
    /\ Tick
    /\ Other("wheel")
    /\ Effect

\* onTouchStart (line 1155): one more contact, at a point where none is;
\* contacts are pairwise at integer distances
TouchStart(p) ==
    /\ Quiet
    /\ ~pressed
    /\ Len(touches) < MaxTouches
    /\ \A i \in DOMAIN touches : touches[i] # p /\ touches[i] \in TouchPts
    /\ touches' = Append(touches, p)
    /\ touchKind' = IF touches = <<>> THEN "tap" ELSE "multi"
    /\ handleTouchStart(ClientAll(touches'))
    /\ anchor' = IF Len(touches') = 1 THEN Anchor(p, offset)
                 ELSE IF isDragging' THEN anchor ELSE NoAnchor
    /\ lastEvent' = "other"
    /\ UNCHANGED <<tables, rect, context2d, parent, ptr, pressed, downPt, queue>>
    /\ Tick
    /\ Effect

\* onTouchMove (line 1156): contact i moves to p
TouchMove(i, p) ==
    /\ Quiet
    /\ i \in DOMAIN touches
    /\ Len(touches) > 1 => p \in TouchPts
    /\ \A j \in DOMAIN touches : touches[j] # p
    /\ touches' = [touches EXCEPT ![i] = p]
    /\ touchKind' = IF touchKind = "tap" THEN "moved" ELSE touchKind
    /\ handleTouchMove(ClientAll(touches'))
    /\ InPanRange(offset')
    /\ KeepAnchor
    /\ lastEvent' = "other"
    /\ UNCHANGED <<tables, rect, context2d, parent, ptr, pressed, downPt, queue>>
    /\ Tick
    /\ Render(Len(touches) = 1 /\ isDragging)

\* onTouchEnd (line 1157): contact i lifts; the browser follows a one-finger
\* touch that never moved with mousedown, mouseup and click at its point
TouchEnd(i) ==
    /\ Quiet
    /\ i \in DOMAIN touches
    /\ touches' = RemoveAt(touches, i)
    /\ handleTouchEnd
    /\ IF touchKind = "tap"
         THEN /\ queue' = <<"mousedown", "mouseup", "click">>
              /\ ptr' = touches[i]
         ELSE UNCHANGED <<queue, ptr>>
    /\ downPt' = ptr'
    /\ touchKind' = touchKind
    /\ KeepAnchor
    /\ lastEvent' = "touchend"
    /\ UNCHANGED <<tables, rect, context2d, parent, pressed>>
    /\ Tick
    /\ Effect

\* the controls (lines 1113-1137); fresh tells that a new offset is stored
Control(op, fresh) ==
    /\ Quiet
    /\ op
    /\ UNCHANGED <<tables, rect, context2d, parent, ptr, pressed, touches, queue>>
    /\ Tick
    /\ Other("other")
    /\ Render(fresh)

Button(op) == Control(op, FALSE)

ZoomInButton == Button(zoomIn)
ZoomOutButton == Button(zoomOut)
ResetButton == Control(resetView, TRUE)

Next ==
    \/ \E p \in MousePts : MouseMove(p)
    \/ MouseDown
    \/ MouseUp
    \/ MouseLeave
    \/ ReleaseOutside
    \/ Click
    \/ \E d \in WheelDeltas : Wheel(d)
    \/ \E p \in TouchPts : TouchStart(p)
    \/ \E i \in 1..MaxTouches, p \in MousePts \cup TouchPts : TouchMove(i, p)
    \/ \E i \in 1..MaxTouches : TouchEnd(i)
    \/ ZoomInButton
    \/ ZoomOutButton
    \/ ResetButton

Spec == Init /\ [][Next]_vars

-----------------------------------------------------------------------------
(* The component on a canvas whose getContext('2d') yields null *)

InitNoSurface == InitWith(FALSE)

SpecNoSurface == InitNoSurface /\ [][Next]_vars

-----------------------------------------------------------------------------
(* Export, its deferred redraw, and new props, with mouse pans and the
   controls, in views near scale 1 *)

\* the export button (line 1127); age counts the events other than exports
Download ==
    /\ Quiet
    /\ Len(timers) < MaxTimers
    /\ handleDownload
    /\ UNCHANGED <<tables, rect, context2d, parent, ptr, pressed, touches, queue>>
    /\ Other("download")

\* the timer of line 1104 expires; timers expire in the order they were set
ExportTimer ==
    /\ Quiet
    /\ timers # <<>>
    /\ redrawLater(Head(timers).call)
    /\ timers' = Tail(timers)
    /\ UNCHANGED <<tables, rect, context2d, parent, ptr, pressed, touches, queue>>
    /\ Other("timer")

\* the parent renders CanvasMap with another entity list (lines 859-864)
PropsUpdate(list) ==
    /\ Quiet
    /\ list # tables
    /\ tables' = list
    /\ UNCHANGED progVars
    /\ NoCall
    /\ UNCHANGED <<rect, context2d, parent, ptr, pressed, touches, queue>>
    /\ Tick
    /\ Other("props")
    /\ Effect

\* the scale is within MaxZoom steps of the zoom controls of scale 1
NearUnit(sc) == Abs(sc - UNIT) <= MaxZoom * ZOOM_STEP

NextExport ==
    \/ \E p \in MousePts : MouseMove(p)
    \/ MouseDown
    \/ MouseUp
    \/ Click
    \/ \E d \in WheelDeltas : Wheel(d) /\ NearUnit(scale')
    \/ ZoomInButton /\ NearUnit(scale')
    \/ ZoomOutButton /\ NearUnit(scale')
    \/ ResetButton
    \/ Download
    \/ ExportTimer
    \/ \E list \in Layouts : PropsUpdate(list)

SpecExport == Init /\ [][NextExport]_vars

-----------------------------------------------------------------------------
(* Touch gestures whose contacts may coincide, at distances 0, 50, 100, 150 *)

PinchPts == {Pt(70, 60), Pt(130, 140), Pt(160, 180)}

PinchScales == {MIN_SCALE, UNIT, MAX_SCALE}

InitPinch ==
    /\ scale \in PinchScales
    /\ offset = Pt(DEFAULT_OFFSET, DEFAULT_OFFSET)
    /\ isDragging = FALSE
    /\ dragStart = Pt(0, 0)
    /\ lastTouchDistance = NULL
    /\ tables = StackedLayout
    /\ rect \in CanvasOrigins
    /\ context2d = TRUE
    /\ passes = <<Pass(FALSE, tables, scale, offset)>>
    /\ surface = drawPass(Blank, FALSE, tables, scale, offset)
    /\ timers = <<>>
    /\ ptr = Pt(70, 60)
    /\ pressed = FALSE
    /\ downPt = ptr
    /\ touches = <<>>
    /\ touchKind = None
    /\ queue = <<>>
    /\ lastEvent = "other"
    /\ emitted = <<>>
    /\ anchor = NoAnchor
    /\ NoParent

\* onTouchStart (line 1155): one more contact, anywhere
Contact(p) ==
    /\ Quiet
    /\ ~pressed
    /\ Len(touches) < MaxTouches
    /\ touches' = Append(touches, p)
    /\ touchKind' = IF touches = <<>> THEN "tap" ELSE "multi"
    /\ handleTouchStart(ClientAll(touches'))
    /\ anchor' = IF Len(touches') = 1 THEN Anchor(p, offset)
                 ELSE IF isDragging' THEN anchor ELSE NoAnchor
    /\ lastEvent' = "other"
    /\ UNCHANGED <<tables, rect, context2d, parent, ptr, pressed, downPt, queue>>
    /\ Tick
    /\ Effect

\* onTouchMove (line 1156): contact i moves to p
Slide(i, p) ==
    /\ Quiet
    /\ i \in DOMAIN touches
    /\ touches[i] # p
    /\ touches' = [touches EXCEPT ![i] = p]
    /\ touchKind' = IF touchKind = "tap" THEN "moved" ELSE touchKind
    /\ handleTouchMove(ClientAll(touches'))
    /\ InPanRange(offset')
    /\ KeepAnchor
    /\ lastEvent' = "other"
    /\ UNCHANGED <<tables, rect, context2d, parent, ptr, pressed, downPt, queue>>
    /\ Tick
    /\ Render(Len(touches) = 1 /\ isDragging)

NextPinch ==
    \/ \E p \in PinchPts : Contact(p)
    \/ \E i \in 1..MaxTouches, p \in PinchPts : Slide(i, p)
    \/ \E i \in 1..MaxTouches : TouchEnd(i)
    \/ MouseDown
    \/ MouseUp
    \/ Click

SpecPinch == InitPinch /\ [][NextPinch]_vars

-----------------------------------------------------------------------------
(* The hit test as a function of the view, the entity list and the point *)

ScaleGrid == {MIN_SCALE + ZOOM_STEP * k : k \in 0..((MAX_SCALE - MIN_SCALE) \div ZOOM_STEP)}

HitOffsets == {Pt(50, 50), Pt(56, 58), Pt(-70, 10), Pt(0, 0)}

TapPts == {Pt(x, y) : x \in {50, 70, 97, 110, 140, 200}, y \in {50, 60, 80, 95, 120}}

\* the canvas points, if whole pixels, where the centres of the drawn
\* rectangles lie: offset + (x + w/2) * scale
CentrePts ==
    LET cx(t) == (2 * drawRect(t).x + drawRect(t).w) * scale
        cy(t) == (2 * drawRect(t).y + drawRect(t).h) * scale
    IN {Pt(offset.x + cx(tables[i]) \div (2 * UNIT),
           offset.y + cy(tables[i]) \div (2 * UNIT)) :
          i \in {j \in DOMAIN tables : /\ cx(tables[j]) % (2 * UNIT) = 0
                                       /\ cy(tables[j]) % (2 * UNIT) = 0}}

InitHit ==
    /\ scale \in ScaleGrid
    /\ offset \in HitOffsets
    /\ isDragging = FALSE
    /\ dragStart = Pt(0, 0)
    /\ lastTouchDistance = NULL
    /\ tables \in Layouts
    /\ rect \in CanvasOrigins
    /\ context2d = TRUE
    /\ passes = <<Pass(FALSE, tables, scale, offset)>>
    /\ surface = drawPass(Blank, FALSE, tables, scale, offset)
    /\ timers = <<>>
    /\ ptr = Pt(70, 60)
    /\ pressed = FALSE
    /\ downPt = ptr
    /\ touches = <<>>
    /\ touchKind = None
    /\ queue = <<>>
    /\ lastEvent = "other"
    /\ emitted = <<>>
    /\ anchor = NoAnchor
    /\ NoParent

\* a click at the canvas point p
Tap(p) ==
    /\ handleClick(Client(p))
    /\ ptr' = p
    /\ downPt' = p
    /\ lastEvent' = "click"
    /\ UNCHANGED <<tables, rect, context2d, parent, timers, pressed, touches,
                   touchKind, queue, anchor>>
    /\ Effect

NextHit == \E p \in TapPts \cup CentrePts : Tap(p)

SpecHit == InitHit /\ [][NextHit]_vars

-----------------------------------------------------------------------------
(* Vocabulary of the properties *)

\* the table's drawn rectangle covers the canvas point p: the renderer's
\* side of the geometry, drawRect carried to the screen by canvasTransform
OnScreen(t, p) ==
    LET r == drawRect(t)
        left == canvasTransform(Frac(r.x, 1), scale, offset.x)
        right == canvasTransform(Frac(r.x + r.w, 1), scale, offset.x)
        top == canvasTransform(Frac(r.y, 1), scale, offset.y)
        bottom == canvasTransform(Frac(r.y + r.h, 1), scale, offset.y)
    IN /\ FracLe(left, p.x) /\ FracGe(right, p.x)
       /\ FracLe(top, p.y) /\ FracGe(bottom, p.y)

\* indices of the tables under the canvas point p
Under(p) == {i \in DOMAIN tables : OnScreen(tables[i], p)}

\* squared distance between press and release
Moved2 == (ptr.x - downPt.x) * (ptr.x - downPt.x)
          + (ptr.y - downPt.y) * (ptr.y - downPt.y)

BelowThreshold == Moved2 < DRAG_THRESHOLD * DRAG_THRESHOLD

WheelStep == lastEvent' = "wheel" /\ \E d \in WheelDeltas : Wheel(d)

PinchStep ==
    /\ Len(touches) = 2
    /\ truthy(lastTouchDistance)
    /\ touches' # touches
    /\ \E i \in 1..MaxTouches, p \in TouchPts : TouchMove(i, p)

\* along one axis: the logical coordinate under screen coordinate p (a
\* fraction) before the step, l = (p - o) / scale, is drawn at p after the
\* step, l * scale' + oNew = p; both sides multiplied by scale * p.d
FocalFixed(p, o, oNew) ==
    (p.n - o * p.d) * scale' = (p.n - oNew * p.d) * scale

FocalFixedAt(px, py) ==
    /\ FocalFixed(px, offset.x, offset'.x)
    /\ FocalFixed(py, offset.y, offset'.y)

\* the midpoint of the two contacts after the move, relative to the canvas
MidX == Frac(touches'[1].x + touches'[2].x, 2)
MidY == Frac(touches'[1].y + touches'[2].y, 2)

-----------------------------------------------------------------------------
\* C1: after any sequence of wheel events, pinch moves, zoom buttons and
\* view resets, the view scale is within [0.2, 5.0].
ScaleWithinBounds == MIN_SCALE <= scale /\ scale <= MAX_SCALE

\* a pinch has driven the scale to its lower bound
ScaleWithinBounds_witness ==
    /\ scale = MIN_SCALE
    /\ Len(touches) = 2
    /\ lastTouchDistance = 40

\* C2: a press/release pair that moved less than the drag threshold yields
\* exactly one onTableClick call, with the id of a table whose rectangle is
\* under the release point in the current view, and no call when no table
\* is there.
TapActivates ==
    (lastEvent = "click" /\ BelowThreshold) =>
        IF Under(ptr) = {} THEN emitted = <<>>
        ELSE /\ Len(emitted) = 1
             /\ \E i \in Under(ptr) : emitted[1] = tables[i].id

\* a click after a 5 px jitter, on a table, in a zoomed and panned view
TapActivates_witness ==
    /\ lastEvent = "click"
    /\ BelowThreshold
    /\ Moved2 > 0
    /\ scale # UNIT
    /\ emitted = <<"q_2">>

\* C3: a press/release pair that moved at least the drag threshold yields
\* no onTableClick call.
DragYieldsNoCall ==
    (lastEvent = "click" /\ ~BelowThreshold) => emitted = <<>>

PinchNeverTaps ==
    touchKind = "multi" => (emitted = <<>> /\ queue = <<>> /\ lastEvent # "click")

\* both contacts of a pinch have lifted, over a table, in the default view
PinchNeverTaps_witness ==
    /\ touchKind = "multi"
    /\ touches = <<>>
    /\ lastEvent = "touchend"
    /\ Under(Pt(dragStart.x + offset.x - rect.x, dragStart.y + offset.y - rect.y)) # {}

\* the table's drawn rectangle has its centre at the canvas point p
CentreAt(t, p) ==
    LET r == drawRect(t) IN
    /\ 2 * UNIT * (p.x - offset.x) = (2 * r.x + r.w) * scale
    /\ 2 * UNIT * (p.y - offset.y) = (2 * r.y + r.h) * scale

DistinctCells ==
    \A i, j \in DOMAIN tables :
        i # j => <<tables[i].x, tables[i].y>> # <<tables[j].x, tables[j].y>>

\* C5: with tables at pairwise distinct grid coordinates, a click at the
\* image of the centre of a table's rectangle calls onTableClick with that
\* table, and a click at a point outside every rectangle calls nothing; with
\* scale 1 and offset (50,50) the click at (70,60) activates the table at
\* grid (0,0).
HitTestCorrect ==
    (lastEvent = "click" /\ DistinctCells) =>
        /\ \A i \in DOMAIN tables :
              CentreAt(tables[i], ptr) => emitted = <<tables[i].id>>
        /\ Under(ptr) = {} => emitted = <<>>
        /\ (/\ scale = UNIT
            /\ offset = Pt(DEFAULT_OFFSET, DEFAULT_OFFSET)
            /\ ptr = Pt(70, 60))
              => \A i \in DOMAIN tables :
                    (tables[i].x = 0 /\ tables[i].y = 0) => emitted = <<tables[i].id>>

\* a click at the centre of the table at grid (1,0), zoomed out and panned
HitTestCorrect_witness ==
    /\ lastEvent = "click"
    /\ tables = GridLayout
    /\ scale = 400
    /\ offset = Pt(-70, 10)
    /\ CentreAt(tables[2], ptr)
    /\ emitted = <<"p_1">>

\* C6 as claimed: a click inside two or more tables' rectangles calls
\* onTableClick with the last of them in list order.
OverlapPrefersLast ==
    (lastEvent = "click" /\ Cardinality(Under(ptr)) >= 2) =>
        \E i \in Under(ptr) :
            /\ \A j \in Under(ptr) : j <= i
            /\ emitted = <<tables[i].id>>

\* C6 as amended: it calls onTableClick with the first of them in list order.
OverlapPrefersFirst ==
    (lastEvent = "click" /\ Cardinality(Under(ptr)) >= 2) =>
        \E i \in Under(ptr) :
            /\ \A j \in Under(ptr) : i <= j
            /\ emitted = <<tables[i].id>>

\* a click on the cell shared by q_0 and q_1 called q_0
OverlapPrefersFirst_witness ==
    /\ lastEvent = "click"
    /\ Under(ptr) = {1, 2}
    /\ emitted = <<"q_0">>

\* C9: for every view and every canvas point p, the logical point the hit
\* test computes for p is drawn by the renderer at p.
InverseConsistency ==
    \A p \in TapPts :
        LET lx == screenToLogical(Client(p).x, rect.x, offset.x, scale)
            ly == screenToLogical(Client(p).y, rect.y, offset.y, scale)
            sx == canvasTransform(lx, scale, offset.x)
            sy == canvasTransform(ly, scale, offset.y)
        IN sx.n = p.x * sx.d /\ sy.n = p.y * sy.d

\* the hit test has run in a view whose scale does not divide the distances
InverseConsistency_witness ==
    /\ lastEvent = "click"
    /\ ptr \in TapPts
    /\ scale = 600
    /\ offset = Pt(56, 58)
    /\ emitted # <<>>

\* C10: the rectangle drawn for a table and the rectangle tested for it are
\* the same: x = 60 * grid x, y = 40 * grid y, 45 wide, 25 high.
RectanglesAgree ==
    \A i \in DOMAIN tables :
        /\ surface.cells[i].rect = hitRect(tables[i])
        /\ hitRect(tables[i]) =
              [x |-> 60 * tables[i].x, y |-> 40 * tables[i].y, w |-> 45, h |-> 25]

\* a table off the grid origin has been drawn and hit
RectanglesAgree_witness ==
    /\ lastEvent = "click"
    /\ tables = GridLayout
    /\ emitted = <<"p_2">>
    /\ surface.cells[3].rect = [x |-> 0, y |-> 40, w |-> 45, h |-> 25]

-----------------------------------------------------------------------------
(* Vocabulary of the properties about steps *)

\* the gesture machine is in Idle: no drag and no pinch distance
Idle == ~isDragging /\ lastTouchDistance = NULL

\* the steps of the browser's events; each begins with a change that the
\* event always makes, so that other steps are told apart from it at once
MouseMoveStep == ptr' # ptr /\ touches' = touches /\ MouseMove(ptr')

TouchMoveStep ==
    /\ touches' # touches
    /\ Len(touches') = Len(touches)
    /\ \E i \in DOMAIN touches : touches'[i] # touches[i] /\ TouchMove(i, touches'[i])

MoveStep == MouseMoveStep \/ TouchMoveStep

TouchEndStep == Len(touches') < Len(touches) /\ \E i \in 1..MaxTouches : TouchEnd(i)

TouchStartStep == Len(touches') > Len(touches) /\ TouchStart(touches'[Len(touches')])

ClickStep == lastEvent' = "click" /\ Click

ExportStep == lastEvent' = "download" /\ Download

TimerStep == lastEvent' = "timer" /\ ExportTimer

ReleaseStep == MouseUp \/ MouseLeave \/ TouchEndStep

PressStep == MouseDown \/ TouchStartStep

ControlStep == ZoomInButton \/ ZoomOutButton \/ ResetButton

PropsStep == lastEvent' = "props" /\ PropsUpdate(tables')

\* the point of the event: the pointer, or the single contact
Follows(p) ==
    offset' = Pt(anchor.off.x + p.x - anchor.pt.x, anchor.off.y + p.y - anchor.pt.y)

\* the first table in list order under the canvas point p, as a call list
FirstUnder(p) ==
    IF Under(p) = {} THEN <<>>
    ELSE <<tables[CHOOSE i \in Under(p) : \A j \in Under(p) : i <= j].id>>

-----------------------------------------------------------------------------
\* C11: no step of CanvasMap writes the entity list: it changes only when the
\* parent passes another list.  The scale and the offset change only in
\* gesture handlers and in the zoom and reset controls; the export pass and
\* the deferred interactive pass change neither of them nor the list.
OnlyGesturesAndControlsWrite ==
    [][/\ tables' # tables => PropsStep
       /\ <<scale', offset'>> # <<scale, offset>> => (MoveStep \/ WheelStep \/ ControlStep)
       /\ (ExportStep \/ TimerStep) =>
             /\ passes' # <<>>
             /\ UNCHANGED <<tables, scale, offset>>]_vars

\* the deferred redraw of an export has run in a zoomed view of a new list
OnlyGesturesAndControlsWrite_witness ==
    /\ lastEvent = "timer"
    /\ passes = <<Pass(FALSE, GridLayout, scale, offset)>>
    /\ tables = GridLayout
    /\ scale # UNIT
    /\ surface.fillStyle = "#ffffff"

\* C12: after a mouse-up, a mouse-leave or a touch-end that leaves no contact
\* on the canvas the machine is in Idle; in Idle a move changes neither the
\* scale nor the offset, and only a press leaves Idle.
ReleaseReturnsToIdle ==
    [][/\ (ReleaseStep /\ touches' = <<>>) => Idle'
       /\ (Idle /\ MoveStep) => UNCHANGED <<scale, offset>>
       /\ (Idle /\ ~Idle') => PressStep]_vars

\* the pointer left the canvas during a pan that had moved the view
ReleaseReturnsToIdle_witness ==
    /\ pressed
    /\ Idle
    /\ touches = <<>>
    /\ offset = Pt(DEFAULT_OFFSET + 3, DEFAULT_OFFSET + 4)
    /\ ptr = Pt(76, 68)

\* C13: while the button of a mouse pan is down, or the single contact of a
\* touch pan that never had a second contact, every move sets the offset to
\* the event point minus the drag anchor; while the two contacts of a pinch
\* are down, every move rescales by the change of their distance.
SessionsPersist ==
    [][/\ (pressed /\ touches = <<>> /\ MouseMoveStep) =>
             offset' = Pt(Client(ptr').x - dragStart.x, Client(ptr').y - dragStart.y)
       /\ (Len(touches) = 1 /\ touchKind # "multi" /\ TouchMoveStep) =>
             offset' = Pt(Client(touches'[1]).x - dragStart.x,
                          Client(touches'[1]).y - dragStart.y)
       /\ (Len(touches) = 2 /\ TouchMoveStep) =>
             /\ lastTouchDistance # NULL
             /\ lastTouchDistance' = Dist(touches'[1], touches'[2])]_vars

\* C14: in Idle a mouse-up, a mouse-leave, a touch-end or a move leaves the
\* scale and the offset as they are, calls onTableClick not at all and
\* leaves the machine in Idle.
StrayEventIsNoOp ==
    [][(Idle /\ (ReleaseStep \/ MoveStep)) =>
           /\ UNCHANGED <<scale, offset, dragStart>>
           /\ emitted' = <<>>
           /\ Idle']_vars

\* the last contact of a pinch lifted after the other, in a zoomed view
StrayEventIsNoOp_witness ==
    /\ lastEvent = "touchend"
    /\ touchKind = "multi"
    /\ touches = <<>>
    /\ Idle
    /\ scale = 1400
    /\ emitted = <<>>

\* C15: without a 2d context no draw pass paints anything, while a drag still
\* moves the offset, the wheel still changes the scale, and a click is still
\* hit-tested in the current view and calls the first table under it.
NoSurfaceStillWorks ==
    [][/\ surface' = Blank
       /\ (isDragging /\ MouseMoveStep) =>
             offset' = Pt(Client(ptr').x - dragStart.x, Client(ptr').y - dragStart.y)
       /\ \A d \in WheelDeltas :
             (lastEvent' = "wheel" /\ Wheel(d)) =>
                 scale' = clampScale(scale - d * WHEEL_SENSITIVITY)
       /\ ClickStep => emitted' = FirstUnder(ptr)']_vars

\* without a context, a click in a zoomed and panned view called a table
NoSurfaceStillWorks_witness ==
    /\ ~context2d
    /\ surface = Blank
    /\ lastEvent = "click"
    /\ scale # UNIT
    /\ offset # Pt(DEFAULT_OFFSET, DEFAULT_OFFSET)
    /\ emitted = <<"q_2">>

\* C16: on any canvas the program leaves behind, a draw pass in either mode
\* with the current list, scale and offset paints what a second pass with
\* the same inputs paints, and what the pass paints on a blank canvas.
RenderIdempotent ==
    \A mode \in BOOLEAN :
        LET once == drawPass(surface, mode, tables, scale, offset)
            twice == drawPass(once, mode, tables, scale, offset)
            fresh == drawPass(Blank, mode, tables, scale, offset)
        IN /\ Painted(twice) = Painted(once)
           /\ Painted(fresh) = Painted(once)
           /\ twice = once

\* the deferred redraw has painted the frame the effect had painted before
\* the export, in a zoomed view
RenderIdempotent_witness ==
    /\ lastEvent = "timer"
    /\ passes = <<Pass(FALSE, tables, scale, offset)>>
    /\ scale = 600
    /\ Painted(surface) = draw(FALSE, tables, scale, offset)
    /\ surface.fillStyle = "#ffffff"

\* C17: every move during a drag sets the offset to the offset at the press
\* plus the way from the press point to the event point and leaves the scale
\* alone; a move while no drag is on leaves the offset alone.
PanFollowsPointer ==
    [][/\ MouseMoveStep =>
             /\ scale' = scale
             /\ IF isDragging THEN Follows(ptr') ELSE offset' = offset
       /\ TouchMoveStep =>
             IF Len(touches) = 1 /\ isDragging
               THEN Follows(touches'[1]) /\ scale' = scale
               ELSE offset' = offset]_vars

\* a second pan, begun in a panned view, has moved the view further
PanFollowsPointer_witness ==
    /\ isDragging
    /\ pressed
    /\ anchor = Anchor(Pt(73, 64), Pt(DEFAULT_OFFSET + 3, DEFAULT_OFFSET + 4))
    /\ ptr = Pt(76, 68)
    /\ offset = Pt(DEFAULT_OFFSET + 6, DEFAULT_OFFSET + 8)

\* C18: a second contact records the distance of the two contacts and ends
\* the drag; from then until the last contact has lifted no move changes the
\* offset, no onTableClick call is made and no click is dispatched.
SecondContactCancelsPan ==
    [][/\ (Len(touches) = 1 /\ TouchStartStep) =>
             /\ lastTouchDistance' = Dist(touches'[1], touches'[2])
             /\ ~isDragging'
       /\ (touchKind = "multi" /\ touches # <<>> /\ MoveStep) => offset' = offset
       /\ touchKind' = "multi" => (emitted' = <<>> /\ queue' = <<>>)]_vars

\* a second contact has come down 80 px from the contact of a pan, in a
\* panned view
SecondContactCancelsPan_witness ==
    /\ Len(touches) = 2
    /\ touchKind = "multi"
    /\ ~isDragging
    /\ lastTouchDistance = 80
    /\ dragStart = Pt(rect.x + 70 - offset.x, rect.y + 60 - offset.y)
    /\ offset # Pt(DEFAULT_OFFSET, DEFAULT_OFFSET)

\* C19: every move of one of two contacts, with a recorded distance d0 >= 0,
\* sets the scale to clamp(scale + (d1 - d0) * 0.005) and the recorded
\* distance to the new distance d1.
PinchMoveRescales ==
    [][\A i \in 1..MaxTouches, p \in PinchPts :
          (Len(touches) = 2 /\ lastTouchDistance >= 0 /\ Slide(i, p)) =>
              LET d1 == Dist(touches'[1], touches'[2]) IN
              /\ scale' = clampScale(scale + (d1 - lastTouchDistance) * PINCH_SENSITIVITY)
              /\ lastTouchDistance' = d1]_vars

RedrawShowsCurrentState ==
    [][TimerStep => Painted(surface') = draw(FALSE, tables', scale', offset')]_vars

\* C22: a wheel event, in Idle, during a pan or during a pinch, sets the
\* scale to the clamped sum and leaves the offset, the drag flag, the drag
\* anchor and the recorded pinch distance as they are; it calls onTableClick
\* not at all and no click follows it.
WheelIsIndependent ==
    [][lastEvent' = "wheel" =>
          \A d \in WheelDeltas :
              Wheel(d) =>
                  /\ scale' = clampScale(scale - d * WHEEL_SENSITIVITY)
                  /\ UNCHANGED <<offset, isDragging, dragStart, lastTouchDistance>>
                  /\ emitted' = <<>>
                  /\ queue' = <<>>]_vars

\* the wheel has turned while the two contacts of a pinch were down
WheelIsIndependent_witness ==
    /\ lastEvent = "wheel"
    /\ Len(touches) = 2
    /\ lastTouchDistance = 80
    /\ scale = 600

\* C23: the zoom-in control sets the scale to clamp(scale + 0.2) and the
\* zoom-out control to clamp(scale - 0.2), both leaving the offset as it is;
\* the reset control sets scale 1 and offset (50,50), whatever the view was.
ControlsSetTransform ==
    [][/\ ZoomInButton =>
             scale' = clampScale(scale + ZOOM_STEP) /\ offset' = offset
       /\ ZoomOutButton =>
             scale' = clampScale(scale - ZOOM_STEP) /\ offset' = offset
       /\ ResetButton =>
             scale' = UNIT /\ offset' = Pt(DEFAULT_OFFSET, DEFAULT_OFFSET)]_vars

\* the view was reset in the middle of a pan that had moved it by (6,8)
ControlsSetTransform_witness ==
    /\ isDragging
    /\ pressed
    /\ anchor = Anchor(Pt(70, 60), Pt(DEFAULT_OFFSET, DEFAULT_OFFSET))
    /\ ptr = Pt(76, 68)
    /\ scale = UNIT
    /\ offset = Pt(DEFAULT_OFFSET, DEFAULT_OFFSET)
    /\ passes = <<Pass(FALSE, tables, scale, offset)>>

-----------------------------------------------------------------------------
(* The parent of CanvasMap: project creation in ProjectManagement (lines
   85-132) and in its earlier version (Chat.tsx, lines 232-283), and the live
   query that hands the rows of the open project to CanvasMap (lines 37-40,
   486-489) *)

\* an optional field: absent, or holding the value v
UNDEFINED == <<>>
Some(v) == <<v>>

\* generateId() of line 87; one project is created
PROJECT == "p"

\* the columns of the grid of line 115, and of Chat.tsx line 251
COLUMNS == 10
MAX_WIDTH_ITEMS == 20
\* line 104
SPACING == 1

\* the largest number of tables of one type in the form
MaxCount == 7

\* form.small, form.medium, form.large
Counts == {0, 1, MaxCount}

\* the two versions of handleCreateProject
Versions == {"ProjectManagement", "Chat"}

\* lines 109-117: a row of db.projectTables as it is created, without
\* completedBy and completedAt
Table(id, index, type, x, y) ==
    [id |-> id, projectId |-> PROJECT, index |-> index, type |-> type,
     status |-> Pending, x |-> x, y |-> y,
     completedBy |-> UNDEFINED, completedAt |-> UNDEFINED]

\* mutant of generateType: every table is put in the first row
generateTypeOneRow(list, count, type) ==
    list \o [i \in 1..count |->
                LET idx == Len(list) + i - 1 IN
                Table(PROJECT \o "_" \o ToString(idx), idx, type,
                      (idx % COLUMNS) * SPACING, 0)]

\* lines 107-120: the list after generateType(count, type); idx, which starts
\* at 0 and grows with every push, is the length of the list
generateType(list, count, type) ==
    list \o [i \in 1..count |->
                LET idx == Len(list) + i - 1 IN
                Table(PROJECT \o "_" \o ToString(idx), idx, type,
                      (idx % COLUMNS) * SPACING, (idx \div COLUMNS) * SPACING)]

\* Chat.tsx lines 253-270: addTables(count, type) from its i-th round on; st
\* holds tables, currentX and currentY
RECURSIVE addTables(_, _, _, _)
addTables(st, i, count, type) ==
    IF i >= count THEN st
    ELSE LET pushed == Append(st.tables,
                              Table(PROJECT \o "_" \o type \o "_" \o ToString(i),
                                    i, type, st.currentX, st.currentY))
             wrap == st.currentX + 1 >= MAX_WIDTH_ITEMS
         IN addTables([tables |-> pushed,
                       currentX |-> IF wrap THEN 0 ELSE st.currentX + 1,
                       currentY |-> IF wrap THEN st.currentY + 1 ELSE st.currentY],
                      i + 1, count, type)

\* lines 102-124, and Chat.tsx lines 248-274: the tables generated for the
\* counts of the form
generateTables(version, small, medium, large) ==
    IF version = "ProjectManagement"
      THEN generateType(generateType(generateType(<<>>, small, "S"), medium, "M"),
                        large, "L")
      ELSE addTables(addTables(addTables([tables |-> <<>>, currentX |-> 0,
                                          currentY |-> 0],
                                         0, small, "S"),
                               0, medium, "M"),
                     0, large, "L").tables

\* Dexie's bulkAdd (line 126): the rows are added to the store
bulkAdd(store, rows) == store \o rows

\* lines 85-132: nothing without a name; otherwise the generated tables are
\* stored
handleCreateProject(version, name, small, medium, large) ==
    IF name = "" THEN UNCHANGED <<projectTables, acts>>
    ELSE LET rows == generateTables(version, small, medium, large) IN
         /\ projectTables' = bulkAdd(projectTables, rows)
         /\ acts' = [id \in {rows[i].id : i \in DOMAIN rows} |-> 0]

Reverse(s) == [i \in 1..Len(s) |-> s[Len(s) + 1 - i]]

\* toArray() (line 38): the rows of the project, in the order the database
\* yields them, which the code does not fix
toArray(store) == {store, Reverse(store)}

\* the canvas is idle: no button, no contact, no event waiting
AtRest == Quiet /\ ~pressed /\ touches = <<>>

\* the form is submitted, with or without a name; a project is created once
CreateProject(version, name, small, medium, large) ==
    /\ AtRest
    /\ projectTables = <<>>
    /\ handleCreateProject(version, name, small, medium, large)
    /\ UNCHANGED progVars
    /\ NoCall
    /\ UNCHANGED <<tables, rect, context2d, attendance, attendanceToday, timers,
                   ptr, pressed, touches, queue>>
    /\ Other("create")
    /\ Effect

\* lines 37-40 and 486-489: the live query yields the rows of the store, as a
\* new array, and CanvasMap is rendered with it
LiveQuery ==
    /\ AtRest
    /\ \E list \in toArray(projectTables) : list # tables /\ tables' = list
    /\ UNCHANGED progVars
    /\ NoCall
    /\ UNCHANGED <<rect, context2d, parent, timers, ptr, pressed, touches, queue>>
    /\ Other("query")
    /\ Effect

InitCreate ==
    /\ scale = UNIT
    /\ offset = Pt(DEFAULT_OFFSET, DEFAULT_OFFSET)
    /\ isDragging = FALSE
    /\ dragStart = Pt(0, 0)
    /\ lastTouchDistance = NULL
    /\ tables = <<>>
    /\ rect \in CanvasOrigins
    /\ context2d = TRUE
    /\ passes = <<Pass(FALSE, tables, scale, offset)>>
    /\ surface = drawPass(Blank, FALSE, tables, scale, offset)
    /\ timers = <<>>
    /\ ptr = Pt(70, 60)
    /\ pressed = FALSE
    /\ downPt = ptr
    /\ touches = <<>>
    /\ touchKind = None
    /\ queue = <<>>
    /\ lastEvent = "other"
    /\ emitted = <<>>
    /\ anchor = NoAnchor
    /\ NoParent

\* clicks at the points of a grid that covers the first three columns and
\* rows of tables under the default view
ClickPts == {Pt(x, y) : x \in {50, 72, 95, 100, 133, 170},
                        y \in {50, 62, 75, 80, 102, 142}}

NextCreate ==
    \/ \E version \in Versions, name \in {"", "Park"},
          small \in Counts, medium \in Counts, large \in Counts :
            CreateProject(version, name, small, medium, large)
    \/ LiveQuery
    \/ \E p \in ClickPts : Tap(p)

SpecCreate == InitCreate /\ [][NextCreate]_vars

\* the rectangles tested for two tables have no point in common
Disjoint(a, b) ==
    LET r == hitRect(a)
        q == hitRect(b)
    IN \/ r.x + r.w < q.x
       \/ q.x + q.w < r.x
       \/ r.y + r.h < q.y
       \/ q.y + q.h < r.y

\* the ids of the tables under the canvas point p, whatever the list order
IdsUnder(p) == {tables[i].id : i \in Under(p)}

\* C24: the tables that project creation generates, for any counts, have
\* pairwise distinct ids and pairwise distinct grid coordinates, their
\* rectangles are pairwise disjoint, and a click calls onTableClick with the
\* one table under it, in whatever order the entity list holds the tables.
CreationIsDisjoint ==
    /\ \A i, j \in DOMAIN projectTables :
          i # j =>
              /\ projectTables[i].id # projectTables[j].id
              /\ <<projectTables[i].x, projectTables[i].y>>
                    # <<projectTables[j].x, projectTables[j].y>>
              /\ Disjoint(projectTables[i], projectTables[j])
    /\ \A p \in ClickPts : Cardinality(IdsUnder(p)) <= 1
    /\ lastEvent = "click" =>
          IF IdsUnder(ptr) = {} THEN emitted = <<>>
          ELSE Len(emitted) = 1 /\ IdsUnder(ptr) = {emitted[1]}

\* a click in the second row of a project of the largest size, whose entity
\* list is in the reverse of the order of creation
CreationIsDisjoint_witness ==
    /\ lastEvent = "click"
    /\ Len(tables) = 3 * MaxCount
    /\ tables = Reverse(projectTables)
    /\ emitted = <<"p_10">>
    /\ tables[Len(tables) - 10].x = 0
    /\ tables[Len(tables) - 10].y = 1

-----------------------------------------------------------------------------
(* The parent's handler of onTableClick: handleTableClick (lines 147-170),
   and toggleTableStatus of the earlier version (Chat.tsx, lines 310-325) *)

\* user.id of the signed-in user
USER_ID == "u1"

\* Date.now()
Timestamps == {1, 2}

\* calls of handleTableClick per table
MaxActs == 3

\* mutant of update: a change to undefined leaves the property as it is
updateSkipsUndefined(store, key, changes) ==
    [i \in DOMAIN store |->
        IF store[i].id = key
          THEN [f \in DOMAIN store[i] |->
                   IF /\ f \in DOMAIN changes
                      /\ ~(f \in {"completedBy", "completedAt"} /\ changes[f] = UNDEFINED)
                     THEN changes[f] ELSE store[i][f]]
          ELSE store[i]]

\* Dexie's update(key, changes) (line 165): the changes are written into the
\* row of that key; a change to undefined deletes the property
update(store, key, changes) ==
    [i \in DOMAIN store |->
        IF store[i].id = key
          THEN [f \in DOMAIN store[i] |->
                   IF f \in DOMAIN changes THEN changes[f] ELSE store[i][f]]
          ELSE store[i]]

\* Array.prototype.find by id (line 148): the index of the first table of the
\* entity list with that id, 0 when there is none
findById(tbls, tableId) ==
    LET matches == {i \in DOMAIN tbls : tbls[i].id = tableId} IN
    IF matches = {} THEN 0
    ELSE CHOOSE i \in matches : \A j \in matches : i <= j

\* mutant of handleTableClick: an Issue stays an Issue
handleTableClickNoReopen(tableId, now) ==
    LET i == findById(tables, tableId) IN
    IF i = 0 THEN UNCHANGED projectTables
    ELSE LET table == tables[i] IN
         projectTables' =
             update(projectTables, tableId,
                    IF table.status = Pending
                      THEN [status |-> Completed, completedBy |-> Some(USER_ID),
                            completedAt |-> Some(now)]
                      ELSE [status |-> Issue, completedBy |-> UNDEFINED,
                            completedAt |-> UNDEFINED])

\* lines 147-170: the table is looked up in activeTables, the result of the
\* live query that this render saw, and the next status is written to the
\* store
handleTableClick(tableId, now) ==
    LET i == findById(tables, tableId) IN
    IF i = 0 THEN UNCHANGED projectTables
    ELSE LET table == tables[i] IN
         projectTables' =
             update(projectTables, tableId,
                    IF table.status = Pending
                      THEN [status |-> Completed, completedBy |-> Some(USER_ID),
                            completedAt |-> Some(now)]
                    ELSE IF table.status = Completed
                      THEN [status |-> Issue, completedBy |-> UNDEFINED,
                            completedAt |-> UNDEFINED]
                    ELSE [status |-> Pending, completedBy |-> UNDEFINED,
                          completedAt |-> UNDEFINED])

\* Chat.tsx lines 310-325
toggleTableStatus(tableId, now) ==
    LET i == findById(tables, tableId) IN
    IF i = 0 THEN UNCHANGED projectTables
    ELSE LET table == tables[i]
             newStatus == IF table.status = Pending THEN Completed
                          ELSE IF table.status = Completed THEN Issue
                          ELSE Pending
         IN projectTables' =
                update(projectTables, tableId,
                       [status |-> newStatus,
                        completedBy |-> IF newStatus = Completed THEN Some(USER_ID)
                                        ELSE UNDEFINED,
                        completedAt |-> IF newStatus = Completed THEN Some(now)
                                        ELSE UNDEFINED])

\* the handler bound to onTableClick in either version (line 488, Chat.tsx
\* line 486), for the calls that CanvasMap made
onTableClick(version, calls, now) ==
    IF calls = <<>> THEN UNCHANGED projectTables
    ELSE IF version = "ProjectManagement" THEN handleTableClick(calls[1], now)
    ELSE toggleTableStatus(calls[1], now)

\* history: one more call for the tables of calls, at most MaxActs for each
Delivered(calls) ==
    /\ acts' = [id \in DOMAIN acts |->
                  IF calls # <<>> /\ calls[1] = id THEN acts[id] + 1 ELSE acts[id]]
    /\ \A id \in DOMAIN acts : acts'[id] <= MaxActs

\* the version that created the project handles its clicks
VersionOf(store) ==
    IF \E i \in DOMAIN store : store[i].id = PROJECT \o "_0"
      THEN "ProjectManagement" ELSE "Chat"

\* a click on the canvas at p (line 1154) and what the parent does with the
\* call
ProjectClick(p, now) ==
    /\ AtRest
    /\ handleClick(Client(p))
    /\ onTableClick(VersionOf(projectTables), emitted', now)
    /\ Delivered(emitted')
    /\ ptr' = p
    /\ lastEvent' = "click"
    /\ UNCHANGED <<tables, rect, context2d, attendance, attendanceToday, timers,
                   pressed, touches, touchKind, queue, anchor>>
    /\ downPt' = p
    /\ Effect

\* a search result is chosen (lines 172-175), or the handler is called with
\* an id that no table has
SearchResultClick(tableId, now) ==
    /\ AtRest
    /\ onTableClick(VersionOf(projectTables), <<tableId>>, now)
    /\ Delivered(<<tableId>>)
    /\ UNCHANGED progVars
    /\ NoCall
    /\ UNCHANGED <<tables, rect, context2d, attendance, attendanceToday, timers,
                   ptr, pressed, touches, queue>>
    /\ Other("search")
    /\ Effect

\* the ids of the entity list, and one that no table has
KnownIds == {tables[i].id : i \in DOMAIN tables}
UnknownId == "x_9"

\* canvas points on the table at grid (0,0), on the one at (1,0), and on none
ProjectPts == {Pt(70, 60), Pt(133, 62), Pt(100, 80)}

\* the entity list is a current result of the live query
Fresh == tables \in toArray(projectTables)

\* a project of two tables, created by either version
NextProject ==
    \/ CreateProject("ProjectManagement", "Park", 1, 1, 0)
    \/ CreateProject("Chat", "Park", 1, 1, 0)
    \/ LiveQuery
    \/ \E p \in ProjectPts, now \in Timestamps : ProjectClick(p, now)
    \/ \E id \in KnownIds \cup {UnknownId}, now \in Timestamps :
          SearchResultClick(id, now)

SpecProject == InitCreate /\ [][NextProject]_vars

\* the same, where every call finds the entity list refreshed
NextProjectFresh ==
    \/ CreateProject("ProjectManagement", "Park", 1, 1, 0)
    \/ CreateProject("Chat", "Park", 1, 1, 0)
    \/ LiveQuery
    \/ \E p \in ProjectPts, now \in Timestamps : Fresh /\ ProjectClick(p, now)
    \/ \E id \in KnownIds \cup {UnknownId}, now \in Timestamps :
          Fresh /\ SearchResultClick(id, now)

SpecProjectFresh == InitCreate /\ [][NextProjectFresh]_vars

\* the row of a store with this id
RowOf(store, id) == store[CHOOSE i \in DOMAIN store : store[i].id = id]

\* the status n steps after s in the cycle Pending, Completed, Issue, Pending
Advance(s, n) ==
    LET cycle == <<Pending, Completed, Issue>>
        at == CHOOSE k \in 1..3 : cycle[k] = s
    IN cycle[((at - 1 + n) % 3) + 1]

\* C25: a call of the handler for a table of the refreshed entity list moves
\* the stored status of that table one step along the cycle and leaves every
\* other row alone, so that after every third call the status is Pending, as
\* at creation; a call for an id that no table has, and a click on no table,
\* change no row.
StatusCycles ==
    [][DOMAIN acts' = DOMAIN acts =>
         /\ \A id \in DOMAIN acts :
               IF acts'[id] = acts[id] + 1
                 THEN /\ RowOf(projectTables', id).status
                           = Advance(RowOf(projectTables, id).status, 1)
                      /\ acts'[id] % 3 = 0 =>
                           RowOf(projectTables', id).status = Pending
                 ELSE RowOf(projectTables', id) = RowOf(projectTables, id)
         /\ acts' = acts => projectTables' = projectTables]_vars

\* one table has been activated three times and is Pending again, the other
\* twice and is an Issue
StatusCycles_witness ==
    /\ DOMAIN acts = {"p_0", "p_1"}
    /\ acts["p_0"] = 3
    /\ RowOf(projectTables, "p_0").status = Pending
    /\ acts["p_1"] = 2
    /\ RowOf(projectTables, "p_1").status = Issue
    /\ lastEvent = "click"

\* C26: the stored status of every table is as many steps along the cycle
\* from Pending as calls of the handler were made for it, whether or not the
\* entity list had been refreshed between them.
ActivationsAdvance ==
    \A i \in DOMAIN projectTables :
        projectTables[i].status = Advance(Pending, acts[projectTables[i].id])

\* C28: a stored table has completedBy and completedAt if and only if its
\* status is Completed, and so has every table of the entity list.
CompletionRecorded ==
    \A store \in {projectTables, tables} :
        \A i \in DOMAIN store :
            /\ store[i].completedBy # UNDEFINED <=> store[i].status = Completed
            /\ store[i].completedAt # UNDEFINED <=> store[i].status = Completed

\* a table was completed and then marked as an issue, which cleared the two
\* fields, while the other is completed
CompletionRecorded_witness ==
    /\ Len(projectTables) = 2
    /\ projectTables[1].status = Issue
    /\ projectTables[1].completedBy = UNDEFINED
    /\ projectTables[1].completedAt = UNDEFINED
    /\ projectTables[2].status = Completed
    /\ projectTables[2].completedBy = Some(USER_ID)
    /\ projectTables[2].completedAt = Some(2)
    /\ Fresh

-----------------------------------------------------------------------------
(* Events that are handled before React renders again: their handlers are
   those of the same render and read the same scale (lines 1018, 1115, 1121) *)

\* events of one burst
MaxBurst == 2

WheelEvent(deltaY) == [kind |-> "wheel", deltaY |-> deltaY]
ButtonEvent(kind) == [kind |-> kind, deltaY |-> 0]

ZoomEvents ==
    {WheelEvent(d) : d \in WheelDeltas} \cup {ButtonEvent("zoomIn"), ButtonEvent("zoomOut")}

Bursts == [1..MaxBurst -> ZoomEvents]

\* the update that the handler of ev passes to setScale in a render whose
\* scale is sc: a value computed from sc (line 1019), or a function of the
\* state at the time the update is applied (lines 1115, 1121)
queued(ev, sc) ==
    IF ev.kind = "wheel"
      THEN [fn |-> "value", value |-> clampScale(sc - ev.deltaY * WHEEL_SENSITIVITY)]
      ELSE [fn |-> ev.kind, value |-> 0]

\* React applies the queued updates in order when it renders
RECURSIVE applyUpdates(_, _)
applyUpdates(s, updates) ==
    IF updates = <<>> THEN s
    ELSE LET u == Head(updates)
             next == IF u.fn = "value" THEN u.value
                     ELSE IF u.fn = "zoomIn" THEN Min(s + ZOOM_STEP, MAX_SCALE)
                     ELSE Max(s - ZOOM_STEP, MIN_SCALE)
         IN applyUpdates(next, Tail(updates))

\* the events of evs are handled one after the other, then React renders
Burst(evs) ==
    /\ Quiet
    /\ scale' = applyUpdates(scale, [i \in DOMAIN evs |-> queued(evs[i], scale)])
    /\ UNCHANGED <<offset, isDragging, dragStart, lastTouchDistance>>
    /\ NoCall
    /\ UNCHANGED <<tables, rect, context2d, parent, ptr, pressed, touches, queue>>
    /\ Tick
    /\ Other("burst")
    /\ Effect

NextBurst ==
    \/ \E p \in MousePts : MouseMove(p)
    \/ MouseDown
    \/ MouseUp
    \/ Click
    \/ \E d \in WheelDeltas : Wheel(d)
    \/ ZoomInButton
    \/ ZoomOutButton
    \/ ResetButton
    \/ \E evs \in Bursts : Burst(evs)

SpecBurst == Init /\ [][NextBurst]_vars

\* the scale after the events of evs, each applied to the scale that the one
\* before it left
RECURSIVE Successive(_, _)
Successive(s, evs) ==
    IF evs = <<>> THEN s
    ELSE LET ev == Head(evs)
             next == IF ev.kind = "wheel"
                       THEN clampScale(s - ev.deltaY * WHEEL_SENSITIVITY)
                     ELSE IF ev.kind = "zoomIn" THEN clampScale(s + ZOOM_STEP)
                     ELSE clampScale(s - ZOOM_STEP)
         IN Successive(next, Tail(evs))

\* C27: wheel events and zoom controls handled one after the other leave the
\* scale that results from applying their deltas in order, each to the scale
\* that the one before it left, also when React has not rendered between two
\* of them.
NoZoomDeltaLost ==
    [][\A evs \in Bursts :
          (lastEvent' = "burst" /\ Burst(evs)) => scale' = Successive(scale, evs)]_vars

-----------------------------------------------------------------------------
(* The grid loops of draw (lines 912-925) *)

\* width and height of the canvas (lines 1146-1147)
CANVAS_WIDTH == 800
CANVAS_HEIGHT == 600

\* the iterations after which a loop is taken not to end: more than a loop
\* with spacing 10 makes across the canvas
LoopFuel == 100

\* JavaScript's %: the remainder has the sign of the dividend
jsRem(a, b) == IF a >= 0 THEN a % b ELSE 0 - ((0 - a) % b)

\* lines 917-920 and 921-924: the number of rounds of
\* for (x = start; x < length; x += gridSize), in thousandths of a pixel,
\* counted up to LoopFuel
RECURSIVE gridLoop(_, _, _, _)
gridLoop(x, length, gridSize, rounds) ==
    IF rounds >= LoopFuel \/ ~(x < length) THEN rounds
    ELSE gridLoop(x + gridSize, length, gridSize, rounds + 1)

\* the rounds of the two grid loops of a draw pass
gridRounds(call) ==
    LET gridSize == 50 * call.scale IN
    [x |-> IF gridSize = 0 THEN LoopFuel
           ELSE gridLoop(jsRem(call.offset.x * UNIT, gridSize),
                         CANVAS_WIDTH * UNIT, gridSize, 0),
     y |-> IF gridSize = 0 THEN LoopFuel
           ELSE gridLoop(jsRem(call.offset.y * UNIT, gridSize),
                         CANVAS_HEIGHT * UNIT, gridSize, 0)]

\* C29: in every reachable state the grid spacing 50 * scale is at least 10
\* pixels; the two grid loops of every draw pass made, and of a pass in the
\* current view, end after at most 81 and 61 rounds, and the entity pass
\* paints one cell per entity.
DrawTerminates ==
    /\ 50 * scale >= 10 * UNIT
    /\ \A call \in {passes[i] : i \in DOMAIN passes}
                     \cup {Pass(FALSE, tables, scale, offset)} :
          /\ 50 * call.scale >= 10 * UNIT
          /\ gridRounds(call).x <= CANVAS_WIDTH \div 10 + 1
          /\ gridRounds(call).y <= CANVAS_HEIGHT \div 10 + 1
          /\ Len(draw(call.exportMode, call.tables, call.scale, call.offset).cells)
                = Len(call.tables)
    /\ Len(surface.cells) = Len(tables)

\* a pass was made at the smallest scale in a panned view: 80 and 60 lines
DrawTerminates_witness ==
    /\ scale = MIN_SCALE
    /\ offset = Pt(DEFAULT_OFFSET + 3, DEFAULT_OFFSET + 4)
    /\ passes = <<Pass(FALSE, tables, scale, offset)>>
    /\ gridRounds(passes[1]) = [x |-> 80, y |-> 60]

-----------------------------------------------------------------------------
(* Attendance in TeamManagement: attendanceToday (lines 1707-1708) and
   handleAttendanceAction (lines 1810-1831) *)

\* rows of db.attendance
MaxRecords == 3

Members == {"m1", "m2"}
AttendanceTypes == {"Work", "Sick", "Vacation"}

\* line 1707: the date of the render
TODAY == "2026-11-01"

\* generateId() (line 1816): an id that no row has
generateId(store) == "a" \o ToString(Len(store))

\* Dexie's add (line 1815)
add(store, row) == Append(store, row)

\* Array.prototype.find by member (line 1811): the index of the first row of
\* attendanceToday of that member, 0 when there is none
findByMember(rows, memberId) ==
    LET matches == {i \in DOMAIN rows : rows[i].memberId = memberId} IN
    IF matches = {} THEN 0
    ELSE CHOOSE i \in matches : \A j \in matches : i <= j

\* lines 1810-1831: without a row of today in attendanceToday, the result of
\* the live query that this render saw, a row is added; with a Work row
\* that has no check-out, the check-out is written; otherwise nothing
handleAttendanceAction(memberId, type, now) ==
    LET i == findByMember(attendanceToday, memberId) IN
    IF i = 0
      THEN attendance' = add(attendance,
                             [id |-> generateId(attendance), memberId |-> memberId,
                              date |-> TODAY, checkIn |-> now,
                              checkOut |-> UNDEFINED, type |-> type,
                              synced |-> FALSE])
    ELSE IF attendanceToday[i].type = "Work" /\ attendanceToday[i].checkOut = UNDEFINED
      THEN attendance' = update(attendance, attendanceToday[i].id,
                                [checkOut |-> Some(now), synced |-> FALSE])
    ELSE UNCHANGED attendance

\* one of the attendance buttons of a member is pressed
AttendanceAction(memberId, type, now) ==
    /\ AtRest
    /\ handleAttendanceAction(memberId, type, now)
    /\ Len(attendance') <= MaxRecords
    /\ UNCHANGED progVars
    /\ NoCall
    /\ UNCHANGED <<tables, rect, context2d, projectTables, attendanceToday, acts,
                   timers, ptr, pressed, touches, queue>>
    /\ Other("attendance")
    /\ Effect

\* lines 1707-1708: the live query yields the rows of today
AttendanceQuery ==
    /\ AtRest
    /\ attendanceToday # attendance
    /\ attendanceToday' = SelectSeq(attendance, LAMBDA a : a.date = TODAY)
    /\ UNCHANGED progVars
    /\ NoCall
    /\ UNCHANGED <<tables, rect, context2d, projectTables, attendance, acts,
                   timers, ptr, pressed, touches, queue>>
    /\ Other("query")
    /\ Effect

NextAttendance ==
    \/ \E memberId \in Members, type \in AttendanceTypes, now \in Timestamps :
          AttendanceAction(memberId, type, now)
    \/ AttendanceQuery

SpecAttendance == InitCreate /\ [][NextAttendance]_vars

\* C30: the store never holds two attendance rows of the same member and
\* date, whether or not the live query had refreshed between two actions,
\* and a check-out that has been set is not set again.
OneRecordPerMemberAndDay ==
    [][/\ \A i, j \in DOMAIN attendance' :
             i # j => <<attendance'[i].memberId, attendance'[i].date>>
                         # <<attendance'[j].memberId, attendance'[j].date>>
       /\ \A i \in DOMAIN attendance :
             attendance[i].checkOut # UNDEFINED =>
                 attendance'[i].checkOut = attendance[i].checkOut]_vars

====
